---- MODULE Spec2Model ----
(***************************************************************************)
(* Read planning of StorageCnchHive (src/Storages/Hive/StorageCnchHive.cpp) *)
(* as a state machine: hash-index extraction from a file path, the         *)
(* predicate split of applyFilter, the bucket resolver                     *)
(* getSelectedBucketNumber and the prepareReadContext pipeline (partition  *)
(* selection, partition ceiling, sequential or pooled listing, bucket      *)
(* pruning, resource packaging).                                           *)
(*                                                                         *)
(* Strings are sequences of one-character strings, positions are the       *)
(* 0-based positions of the C++ code.                                      *)
(***************************************************************************)
EXTENDS Integers, Sequences, FiniteSets, Bags, TLC

VARIABLES
    hive_file_path,   \* argument of get_file_hash_index
    hash_index,       \* its outcome, Pending before the call
    query_filter,     \* applyFilter: the conjuncts of its query_filter argument
    filter_settings,  \* applyFilter: the settings and storage facts it reads
    partition_filters,\* query_info's partition filters
    select_query,     \* the select query's WHERE, PREWHERE and FINAL
    where_filter,     \* the conjuncts set as WHERE at line 373
    residual_filter,  \* applyFilter's return value
    filter_pc,        \* "idle", "call", "done" or "failed"
    cluster_by_key,   \* the table's cluster-by key: is_bucket_table, required_cols
    cluster_key_conds,\* optimizer.cluster_key_conds, NoCond when null
    selected_bucket,  \* outcome of getSelectedBucketNumber
    bucket_pc,        \* "idle", "call" or "done"
    read_pc,          \* prepareReadContext: position of the calling thread
    read_settings,    \* num_streams, max_partitions_to_read, input_format
    selection,        \* what selectPartitions read and what the metastore reported
    partitions,       \* the selected partitions
    error,            \* the exception raised, NoError when none
    next_index,       \* loop position in `partitions` (0-based)
    task,             \* state of the listing job of each partition position
    task_files,       \* per position: `files`, the collection the job read, whether list threw
    mu,               \* holder of the mutex mu, 0 when free
    hive_files,       \* the shared file collection, then the final file set
    pool,             \* the ThreadPool
    list_calls,       \* number of lister->list calls per partition position
    listed_files,     \* hive_files as listing left it (total_hive_files)
    resource,         \* the resource context: create queries and data parts
    result            \* the PrepareContextResult returned

hashVars == <<hive_file_path, hash_index>>

filterVars == <<query_filter, filter_settings, partition_filters, select_query,
                where_filter, residual_filter, filter_pc>>

bucketVars == <<cluster_by_key, cluster_key_conds, selected_bucket, bucket_pc>>

vars == <<hive_file_path, hash_index, query_filter, filter_settings,
          partition_filters, select_query, where_filter, residual_filter,
          filter_pc, cluster_by_key, cluster_key_conds, selected_bucket,
          bucket_pc, read_pc, read_settings, selection, partitions, error,
          next_index, task, task_files, mu, hive_files, pool, list_calls,
          listed_files, resource, result>>

readVars == <<read_pc, read_settings, selection, partitions, error, next_index,
              task, task_files, mu, hive_files, pool, list_calls, listed_files,
              resource, result>>

(***************************************************************************)
(* Outcomes of a call: no value (std::nullopt), a value, or an exception.  *)
(***************************************************************************)
Pending == [kind |-> "pending"]
None == [kind |-> "none"]
Some(v) == [kind |-> "value", v |-> v]
Throw(e) == [kind |-> "throw", error |-> e]

(***************************************************************************)
(* get_file_hash_index                                                     *)
(***************************************************************************)
Digits == {"0", "1", "2", "3", "4", "5", "6", "7", "8", "9"}

\* std::isdigit on one character
IsDigit(c) == c \in Digits

DigitVal(c) ==
    CASE c = "0" -> 0 [] c = "1" -> 1 [] c = "2" -> 2 [] c = "3" -> 3
      [] c = "4" -> 4 [] c = "5" -> 5 [] c = "6" -> 6 [] c = "7" -> 7
      [] c = "8" -> 8 [] c = "9" -> 9

\* std::string::npos, size_t(-1)
NPos == -1

\* INT_MAX, the largest value std::stoi returns
IntMax == 2147483647

\* s.find_first_of(c) in the place of find_last_of
find_first_of(s, c) ==
    LET hits == {i \in 1..Len(s) : s[i] = c}
    IN  IF hits = {} THEN NPos
        ELSE (CHOOSE i \in hits : \A j \in hits : i <= j) - 1

\* s.find_last_of(c): the 0-based position of the last c, npos when absent
find_last_of(s, c) ==
    LET hits == {i \in 1..Len(s) : s[i] = c}
    IN  IF hits = {} THEN NPos
        ELSE (CHOOSE i \in hits : \A j \in hits : j <= i) - 1

\* pos + 1 in size_t arithmetic: npos + 1 wraps to 0
SizeSucc(pos) == IF pos = NPos THEN 0 ELSE pos + 1

\* the loop of get_hash_index_from_position: the first r >= pos that is the
\* end of the string or holds no digit
RECURSIVE ScanDigits(_, _)
ScanDigits(s, r) ==
    IF r < Len(s) /\ IsDigit(s[r + 1]) THEN ScanDigits(s, r + 1) ELSE r

\* std::stoi on a non-empty run of digits: the value, or std::out_of_range
\* when it does not fit in int
RECURSIVE StoiFrom(_, _, _)
StoiFrom(run, i, acc) ==
    IF i > Len(run) THEN Some(acc)
    ELSE LET d == DigitVal(run[i])
         IN  IF acc > (IntMax - d) \div 10 THEN Throw("out_of_range")
             ELSE StoiFrom(run, i + 1, acc * 10 + d)

stoi(run) == StoiFrom(run, 1, 0)

\* a scan that stops after one digit
get_hash_index_from_position_one_digit(s, pos) ==
    LET l == pos
        r == IF pos < Len(s) /\ IsDigit(s[pos + 1]) THEN pos + 1 ELSE pos
    IN  IF l < r THEN stoi(SubSeq(s, l + 1, r)) ELSE None

get_hash_index_from_position(s, pos) ==
    LET l == pos
        r == ScanDigits(s, pos)
    IN  IF l < r THEN stoi(SubSeq(s, l + 1, r)) ELSE None

get_file_hash_index(s) ==
    LET res == get_hash_index_from_position(s, SizeSucc(find_last_of(s, "_")))
    IN  IF res # None THEN res
        ELSE get_hash_index_from_position(s, SizeSucc(find_last_of(s, "/")))

(***************************************************************************)
(* File paths given to get_file_hash_index: the three paths of the         *)
(* documentation and every concatenation of at most MaxTokens tokens.      *)
(***************************************************************************)
Example1 == <<"p","a","r","t","-","0","0","0","0","0","-","5","c","f","7","5","8","0","f","-","a","3","f","6","-","4","b","e","b","-","9","0","a","6","-","e","9","f","4","d","e","6","1","c","8","8","7","_","0","0","0","0","3",".","c","0","0","0">>
Example2 == <<"/","0","0","0","0","0","3","_","0","_","6","6","a","d","d","4","e","f","-","d","1","f","c","-","4","0","1","5","-","8","7","b","4","-","6","9","6","2","d","e","0","4","4","3","2","3","_","2","0","2","4","0","2","2","9","_","0","3","3","0","2","9","_","0","0","0","3","3","_","e","r","d","c","f">>
Example3 == <<"n","o","_","d","i","g","i","t","s","_","h","e","r","e">>
IntMaxRun == <<"2","1","4","7","4","8","3","6","4","7">>
IntMaxRun1 == <<"2","1","4","7","4","8","3","6","4","8">>

MaxTokens == 3

Tokens == {<<"_">>, <<"/">>, <<"0">>, <<"7">>, <<"a">>, IntMaxRun, IntMaxRun1}

RECURSIVE Concat(_)
Concat(ts) == IF ts = <<>> THEN <<>> ELSE Head(ts) \o Concat(Tail(ts))

TokenPaths ==
    {Concat(ts) : ts \in UNION {[1..n -> Tokens] : n \in 0..MaxTokens}}

HashPaths == TokenPaths \cup {Example1, Example2, Example3}

HashIdle == hive_file_path = <<>> /\ hash_index = Pending

HashInputs == hive_file_path \in HashPaths /\ hash_index = Pending

\* one call of get_file_hash_index
ExtractHashIndex ==
    /\ hash_index = Pending
    /\ hash_index' = get_file_hash_index(hive_file_path)
    /\ UNCHANGED hive_file_path
    /\ UNCHANGED <<filterVars, bucketVars, readVars>>

(***************************************************************************)
(* applyFilter.  A filter is the sequence of its top-level conjuncts; a    *)
(* conjunct is named by an atom, Columns gives the columns it references.  *)
(***************************************************************************)
Atoms == {"p_eq", "pq_lt", "a_eq", "pa_lt"}

Columns(atom) ==
    CASE atom = "p_eq" -> {"p"}
      [] atom = "pq_lt" -> {"p", "q"}
      [] atom = "a_eq" -> {"a"}
      [] atom = "pa_lt" -> {"p", "a"}
      [] OTHER -> {}

PartitionColumns == {"p", "q"}

MaxConjuncts == 2

Filters == UNION {[1..n -> Atoms] : n \in 0..MaxConjuncts}

NoExpr == [set |-> FALSE, conjuncts |-> <<>>]

RECURSIVE SelectSeq2(_, _)
SelectSeq2(s, keep) ==
    IF s = <<>> THEN <<>>
    ELSE (IF Head(s) \in keep THEN <<Head(s)>> ELSE <<>>) \o SelectSeq2(Tail(s), keep)

\* PushFilterToStorage::extractPartitionFilter: a conjunct is pushed iff
\* every column it references is a partition column
extractPartitionFilter(filter) ==
    LET pushable == {a \in Atoms : Columns(a) \subseteq PartitionColumns}
    IN  [push |-> SelectSeq2(filter, pushable),
         remain |-> SelectSeq2(filter, Atoms \ pushable)]

\* PredicateUtils::combineConjuncts: the conjunction of the list, no
\* expression to evaluate when the list is empty
combineConjuncts(conjuncts) ==
    [set |-> conjuncts # <<>>, conjuncts |-> conjuncts]

\* PredicateUtils::extractConjuncts
extractConjuncts(expr) == expr.conjuncts

\* PredicateUtils::subtract: drop every conjunct that occurs in `other`
subtract(conjuncts, other) ==
    SelectSeq2(conjuncts, Atoms \ {other[i] : i \in 1..Len(other)})

\* the conjuncts at the positions `idx` of s, in order
RECURSIVE AtPositions(_, _, _)
AtPositions(s, idx, i) ==
    IF i > Len(s) THEN <<>>
    ELSE (IF i \in idx THEN <<s[i]>> ELSE <<>>) \o AtPositions(s, idx, i + 1)

PrewhereMethods == {"ALL", "COLUMN_SIZE", "NEVER", "UNKNOWN"}

FilterSettings ==
    [external_enable_partition_filter_push_down : BOOLEAN,
     optimize_move_to_prewhere : BOOLEAN,
     optimize_move_to_prewhere_if_final : BOOLEAN,
     hive_move_to_prewhere_method : PrewhereMethods,
     supportsPrewhere : BOOLEAN,
     column_sizes_empty : BOOLEAN]

FilterIdle ==
    /\ query_filter = <<>>
    /\ filter_settings = [idle |-> TRUE]
    /\ partition_filters = <<>>
    /\ select_query = [idle |-> TRUE]
    /\ where_filter = <<>>
    /\ residual_filter = NoExpr
    /\ filter_pc = "idle"

FilterInputs ==
    /\ query_filter \in Filters
    /\ filter_settings \in FilterSettings
    /\ partition_filters \in {<<>>, <<"p_eq">>}
    /\ select_query \in [where : {NoExpr},
                         prewhere : {NoExpr, combineConjuncts(<<"a_eq">>)},
                         final : BOOLEAN]
    /\ where_filter = <<>>
    /\ residual_filter = NoExpr
    /\ filter_pc = "call"

\* lines 363-369: the conjuncts kept for WHERE
RemainingConjuncts(filter, push_down) ==
    IF push_down THEN extractPartitionFilter(filter).remain ELSE <<>>

\* lines 376-378
PromotionGuard(st, q) ==
    /\ st.supportsPrewhere
    /\ st.optimize_move_to_prewhere
    /\ q.where.set
    /\ ~q.prewhere.set
    /\ (~q.final \/ st.optimize_move_to_prewhere_if_final)

\* a return of the WHERE conjuncts as they are, prewhere not subtracted
ResidualOfWithoutSubtract(conjuncts, q) == combineConjuncts(conjuncts)

\* lines 412-416
ResidualOf(conjuncts, q) ==
    combineConjuncts(IF q.prewhere.set
                     THEN subtract(conjuncts, extractConjuncts(q.prewhere))
                     ELSE conjuncts)

\* one call of applyFilter
ApplyFilter ==
    /\ filter_pc = "call"
    /\ LET st == filter_settings
           push_down == st.external_enable_partition_filter_push_down
           conjuncts == RemainingConjuncts(query_filter, push_down)
           q1 == [select_query EXCEPT !.where = combineConjuncts(conjuncts)]
       IN  /\ partition_filters' =
                 IF push_down
                 THEN partition_filters \o extractPartitionFilter(query_filter).push
                 ELSE partition_filters
           /\ where_filter' = conjuncts
           /\ IF ~PromotionGuard(st, q1) \/ st.hive_move_to_prewhere_method = "NEVER"
              THEN /\ select_query' = q1
                   /\ residual_filter' = ResidualOf(conjuncts, q1)
                   /\ filter_pc' = "done"
              ELSE IF st.hive_move_to_prewhere_method = "ALL"
              THEN /\ select_query' = [q1 EXCEPT !.prewhere = combineConjuncts(conjuncts)]
                   /\ residual_filter' = ResidualOf(conjuncts, select_query')
                   /\ filter_pc' = "done"
              ELSE IF st.hive_move_to_prewhere_method = "COLUMN_SIZE"
              THEN \* MergeTreeWhereOptimizer moves the conjuncts it chooses
                   \* from WHERE to PREWHERE of the same query
                   \E moved \in SUBSET (1..Len(conjuncts)) :
                       /\ st.column_sizes_empty => moved = {}
                       /\ select_query' =
                             IF moved = {} THEN q1
                             ELSE [q1 EXCEPT
                                     !.where = combineConjuncts(
                                         AtPositions(conjuncts, (1..Len(conjuncts)) \ moved, 1)),
                                     !.prewhere = combineConjuncts(
                                         AtPositions(conjuncts, moved, 1))]
                       /\ residual_filter' = ResidualOf(conjuncts, select_query')
                       /\ filter_pc' = "done"
              ELSE \* NOT_IMPLEMENTED
                   /\ select_query' = q1
                   /\ residual_filter' = NoExpr
                   /\ filter_pc' = "failed"
    /\ UNCHANGED <<query_filter, filter_settings>>
    /\ UNCHANGED <<hashVars, bucketVars, readVars>>

(***************************************************************************)
(* getSelectedBucketNumber.  An expression is a record: fn is the function *)
(* name ("equals", "and", "or", "not", "greater"), or "" for a node that   *)
(* is no function; an equals(column, literal) node carries col and val,    *)
(* the other functions their arguments in args.                            *)
(***************************************************************************)
NoCond == [fn |-> "null", col |-> "", val |-> 0, args |-> <<>>]

Equals(c, v) == [fn |-> "equals", col |-> c, val |-> v, args |-> <<>>]

Func(name, args) == [fn |-> name, col |-> "", val |-> 0, args |-> args]

NotAFunction == [fn |-> "", col |-> "", val |-> 0, args |-> <<>>]

MaxLiteral == 2

NumBuckets == 2

\* the cluster-by expression: hash of the input row modulo the bucket count
RECURSIVE WeightedSum(_, _)
WeightedSum(row, i) ==
    IF i > Len(row) THEN 0 ELSE row[i] * (2 * i - 1) + WeightedSum(row, i + 1)

cluster_by_expression(row) == WeightedSum(row, 1) % NumBuckets

Unbound(required_cols) == [c \in {required_cols[i] : i \in 1..Len(required_cols)} |-> <<>>]

\* a walk that also descends OR nodes
RECURSIVE parse_cluster_by_cond_or_too(_, _)
parse_cluster_by_cond_or_too(ast, columns) ==
    IF ast.fn = "equals"
    THEN IF ast.col \in DOMAIN columns /\ columns[ast.col] = <<>>
         THEN [columns EXCEPT ![ast.col] = <<ast.val>>]
         ELSE columns
    ELSE IF ast.fn \in {"and", "or"}
    THEN IF ast.args = <<>> THEN columns
         ELSE parse_cluster_by_cond_or_too(
                  Func(ast.fn, Tail(ast.args)),
                  parse_cluster_by_cond_or_too(Head(ast.args), columns))
    ELSE columns

\* the lambda parse_cluster_by_cond: columns maps each required column to
\* the values inserted so far (at most one)
RECURSIVE parse_cluster_by_cond(_, _)
parse_cluster_by_cond(ast, columns) ==
    IF ast.fn = "equals"
    THEN IF ast.col \in DOMAIN columns /\ columns[ast.col] = <<>>
         THEN [columns EXCEPT ![ast.col] = <<ast.val>>]
         ELSE columns
    ELSE IF ast.fn = "and"
    THEN IF ast.args = <<>> THEN columns
         ELSE parse_cluster_by_cond(
                  Func("and", Tail(ast.args)),
                  parse_cluster_by_cond(Head(ast.args), columns))
    ELSE columns

getSelectedBucketNumber(key, conds) ==
    IF ~key.is_bucket_table \/ conds = NoCond THEN None
    ELSE LET columns == parse_cluster_by_cond(conds, Unbound(key.required_cols))
         IN  IF \E c \in DOMAIN columns : columns[c] = <<>> THEN None
             ELSE Some(cluster_by_expression(
                          [i \in 1..Len(key.required_cols) |->
                              columns[key.required_cols[i]][1]]))

ClusterKeys ==
    {[is_bucket_table |-> FALSE, required_cols |-> <<>>],
     [is_bucket_table |-> TRUE, required_cols |-> <<"a">>],
     [is_bucket_table |-> TRUE, required_cols |-> <<"a", "b">>]}

Leaves ==
    {Equals(c, v) : c \in {"a", "b"}, v \in 1..MaxLiteral}
        \cup {Equals("x", 1), Func("greater", <<NotAFunction, NotAFunction>>), NotAFunction}

Level1 ==
    Leaves \cup {Func(f, <<l, r>>) : f \in {"and", "or"}, l \in Leaves, r \in Leaves}
           \cup {Func("not", <<l>>) : l \in Leaves}

Level2 ==
    Level1 \cup {Func(f, <<l, r>>) : f \in {"and", "or"}, l \in Level1, r \in Level1}

BucketIdle ==
    /\ cluster_by_key = [idle |-> TRUE]
    /\ cluster_key_conds = NoCond
    /\ selected_bucket = Pending
    /\ bucket_pc = "idle"

BucketInputs ==
    /\ cluster_by_key \in ClusterKeys
    /\ cluster_key_conds \in Level2 \cup {NoCond}
    /\ selected_bucket = Pending
    /\ bucket_pc = "call"

\* one call of getSelectedBucketNumber
ResolveBucket ==
    /\ bucket_pc = "call"
    /\ selected_bucket' = getSelectedBucketNumber(cluster_by_key, cluster_key_conds)
    /\ bucket_pc' = "done"
    /\ UNCHANGED <<cluster_by_key, cluster_key_conds>>
    /\ UNCHANGED <<hashVars, filterVars, readVars>>

(***************************************************************************)
(* prepareReadContext.  Partitions are numbered from 1; the partition of a *)
(* table without partition key is TablePartition.  The lister is           *)
(* deterministic: FilesOf gives the files of a partition, PathOf the path  *)
(* of a file.                                                              *)
(***************************************************************************)
MaxParts == 3

MaxStreams == 2

\* the partition loaded from hive_table->sd
TablePartition == 0

FilesOf(p) ==
    CASE p = 0 -> <<"t_1", "t_ts">>
      [] p = 1 -> <<"a_0", "a_1">>
      [] p = 2 -> <<"b_none">>
      [] p = 3 -> <<"c_1">>
      [] OTHER -> <<"d_0">>

PathOf(f) ==
    CASE f = "t_1" -> <<"/", "t", "/", "p", "_", "1">>
      [] f = "t_ts" -> <<"/", "t", "/", "p", "_", "2", "0", "2", "4", "0", "2", "2", "9", "0", "3", "3", "0", "2", "9">>
      [] f = "a_0" -> <<"/", "a", "/", "p", "_", "0", ".", "c", "0">>
      [] f = "a_1" -> <<"/", "a", "/", "0", "0", "1", "_", "x">>
      [] f = "b_none" -> <<"/", "b", "/", "d", "a", "t", "a">>
      [] f = "c_1" -> <<"/", "c", "/", "p", "_", "1">>
      [] OTHER -> <<"/", "d", "/", "0", "_", "0", "0">>

HudiFormat == "org.apache.hudi.hadoop.HoodieParquetInputFormat"
ParquetFormat == "org.apache.hadoop.hive.ql.io.parquet.MapredParquetInputFormat"
OrcFormat == "org.apache.hadoop.hive.ql.io.orc.OrcInputFormat"

InputFormats == {HudiFormat, ParquetFormat, OrcFormat, "org.apache.hadoop.mapred.TextInputFormat", ""}

\* HiveUtil::getDiskFromURI on the table's location: the disk, or the
\* exception of the resolver
getDiskFromURI(location_ok) ==
    IF location_ok THEN Some("disk") ELSE Throw("GET_DISK_FAILED")

\* a dispatch that falls back to the parquet lister for any other string
getDirectoryListerWithDefault(disk, input_format) ==
    IF disk.kind = "throw" THEN disk
    ELSE IF input_format = HudiFormat THEN Some("HUDI_COW")
    ELSE IF input_format = OrcFormat THEN Some("ORC")
    ELSE Some("PARQUET")

\* getDirectoryLister: the disk of the table's location is resolved first
\* (line 665), then the lister of the table's input format is chosen
getDirectoryLister(disk, input_format) ==
    IF disk.kind = "throw" THEN disk
    ELSE IF input_format = HudiFormat THEN Some("HUDI_COW")
    ELSE IF input_format = ParquetFormat THEN Some("PARQUET")
    ELSE IF input_format = OrcFormat THEN Some("ORC")
    ELSE Throw("UNKNOWN_FORMAT")

NoError == [code |-> "none", current |-> 0, max |-> 0]

Err(code) == [code |-> code, current |-> 0, max |-> 0]

ReadSettings ==
    [num_streams : 0..MaxStreams,
     max_partitions_to_read : (-1)..(MaxParts - 1),
     input_format : InputFormats,
     use_hive_cluster_key_filter : BOOLEAN]

\* the ascending sequence of the elements of a set of numbers
RECURSIVE Ascending(_)
Ascending(S) ==
    IF S = {} THEN <<>>
    ELSE LET m == CHOOSE x \in S : \A y \in S : x <= y
         IN  <<m>> \o Ascending(S \ {m})

Range(seq) == {seq[i] : i \in 1..Len(seq)}

\* HivePartitions partitions; partitions.resize(n) in the place of reserve(n)
ResizedPartitions(n) == [i \in 1..n |-> -1]

\* HivePartitions partitions; partitions.reserve(n)
ReservedPartitions(n) == <<>>

\* the loop of selectPartitions: the reported partitions the pruner cannot
\* prune, in the order reported
RECURSIVE KeepUnpruned(_, _, _)
KeepUnpruned(reported, prunable, acc) ==
    IF reported = <<>> THEN acc
    ELSE KeepUnpruned(Tail(reported), prunable,
                      IF Head(reported) \in prunable THEN acc
                      ELSE Append(acc, Head(reported)))

\* selectPartitions, given the metastore's answer and the set of partitions
\* PartitionPruner::canBePruned accepts
selectPartitions(has_partition_key, use_hive_partition_filter, reported, can_be_pruned) ==
    IF ~has_partition_key THEN <<TablePartition>>
    ELSE KeepUnpruned(reported,
                      IF use_hive_partition_filter THEN can_be_pruned ELSE {},
                      ReservedPartitions(Len(reported)))

\* a ceiling that lets one partition too many through
ExceedsCeilingOffByOne(count, max_partitions_to_read) ==
    max_partitions_to_read > 0 /\ count > max_partitions_to_read + 1

\* lines 227-229
ExceedsCeiling(count, max_partitions_to_read) ==
    max_partitions_to_read > 0 /\ count > max_partitions_to_read

\* line 250
Sequential(num_streams, count) == num_streams <= 1 \/ count = 1

\* std::max in the place of std::min
MaxOf(a, b) == IF a < b THEN b ELSE a

Min(a, b) == IF a < b THEN a ELSE b

NewPool(max_threads) ==
    [max_threads |-> max_threads, queue_size |-> max_threads, scheduled_jobs |-> 0,
     threads |-> 0, shutdown |-> FALSE, first_exception |-> NoError]

NoPool == NewPool(0)

NoResource == [create_queries |-> <<>>, data_parts |-> <<>>]

NoResult == [returned |-> FALSE, hive_files |-> <<>>, local_table_name |-> <<>>]

NoSelection ==
    [has_partition_key |-> FALSE, use_hive_metastore_filter |-> FALSE,
     use_hive_partition_filter |-> FALSE, filter |-> "", metastore_calls |-> 0,
     reported |-> <<>>, selected |-> FALSE, disk_failed |-> FALSE]

ReadIdle ==
    /\ read_pc = "idle"
    /\ read_settings = [idle |-> TRUE]
    /\ selection = NoSelection
    /\ partitions = <<>>
    /\ error = NoError
    /\ next_index = 0
    /\ task = <<>>
    /\ task_files = <<>>
    /\ mu = 0
    /\ hive_files = <<>>
    /\ pool = NoPool
    /\ list_calls = <<>>
    /\ listed_files = <<>>
    /\ resource = NoResource
    /\ result = NoResult

ReadInputs ==
    /\ read_pc = "start"
    /\ read_settings \in ReadSettings
    /\ selection = NoSelection
    /\ partitions = <<>>
    /\ error = NoError
    /\ next_index = 0
    /\ task = <<>>
    /\ task_files = <<>>
    /\ mu = 0
    /\ hive_files = <<>>
    /\ pool = NoPool
    /\ list_calls = <<>>
    /\ listed_files = <<>>
    /\ resource = NoResource
    /\ result = NoResult

\* prepareReadContext fails: the exception leaves the function
Fail(e) ==
    /\ read_pc' = "failed"
    /\ error' = e

\* lines 221-259: the column check, selectPartitions (the metastore call of
\* line 443 may throw), the partition ceiling, getDirectoryLister and the
\* choice of the listing mode
PlanPartitions ==
    /\ read_pc = "start"
    /\ \E columns_exist \in BOOLEAN, has_partition_key \in BOOLEAN,
          use_hive_metastore_filter \in BOOLEAN, use_hive_partition_filter \in BOOLEAN,
          has_partition_key_conds \in BOOLEAN,
          metastore_ok \in BOOLEAN, location_ok \in BOOLEAN,
          table_parts \in SUBSET (1..MaxParts), can_be_pruned \in SUBSET (1..MaxParts) :
          LET reported == IF has_partition_key THEN Ascending(table_parts) ELSE <<>>
              selected == selectPartitions(has_partition_key, use_hive_partition_filter,
                                           reported, can_be_pruned)
              lister == getDirectoryLister(getDiskFromURI(location_ok),
                                           read_settings.input_format)
              n == Len(selected)
              filter == IF use_hive_metastore_filter /\ has_partition_key_conds
                        THEN "partition_key_conds" ELSE ""
          IN  /\ has_partition_key \/ table_parts = {}
              /\ can_be_pruned \subseteq
                    (IF has_partition_key /\ use_hive_partition_filter THEN table_parts ELSE {})
              /\ IF ~columns_exist
                 THEN /\ Fail(Err("NO_SUCH_COLUMN_IN_TABLE"))
                      /\ UNCHANGED <<selection, partitions, task, task_files, list_calls, pool>>
                 ELSE IF has_partition_key /\ ~metastore_ok
                 THEN /\ Fail(Err("METASTORE_FAILED"))
                      /\ selection' =
                            [has_partition_key |-> TRUE,
                             use_hive_metastore_filter |-> use_hive_metastore_filter,
                             use_hive_partition_filter |-> use_hive_partition_filter,
                             filter |-> filter,
                             metastore_calls |-> 1,
                             reported |-> <<>>,
                             selected |-> FALSE,
                             disk_failed |-> FALSE]
                      /\ UNCHANGED <<partitions, task, task_files, list_calls, pool>>
                 ELSE /\ selection' =
                            [has_partition_key |-> has_partition_key,
                             use_hive_metastore_filter |-> use_hive_metastore_filter,
                             use_hive_partition_filter |-> use_hive_partition_filter,
                             filter |-> filter,
                             metastore_calls |-> IF has_partition_key THEN 1 ELSE 0,
                             reported |-> reported,
                             selected |-> TRUE,
                             disk_failed |->
                                 /\ ~ExceedsCeiling(n, read_settings.max_partitions_to_read)
                                 /\ ~location_ok]
                      /\ partitions' = selected
                      /\ task' = [i \in 1..n |-> "unscheduled"]
                      /\ task_files' = [i \in 1..n |-> [files |-> <<>>, seen |-> <<>>, threw |-> FALSE]]
                      /\ list_calls' = [i \in 1..n |-> 0]
                      /\ IF ExceedsCeiling(n, read_settings.max_partitions_to_read)
                         THEN /\ Fail([code |-> "TOO_MANY_PARTITIONS", current |-> n,
                                       max |-> read_settings.max_partitions_to_read])
                              /\ UNCHANGED pool
                         ELSE IF lister.kind = "throw"
                         THEN /\ Fail(Err(lister.error))
                              /\ UNCHANGED pool
                         ELSE IF Sequential(read_settings.num_streams, n)
                         THEN /\ read_pc' = IF n = 0 THEN "prune" ELSE "list"
                              /\ UNCHANGED <<error, pool>>
                         ELSE /\ read_pc' = IF n = 0 THEN "wait" ELSE "schedule"
                              /\ pool' = NewPool(Min(read_settings.num_streams, n))
                              /\ UNCHANGED error
    /\ UNCHANGED <<read_settings, next_index, mu, hive_files, listed_files, resource, result>>
    /\ UNCHANGED <<hashVars, filterVars, bucketVars>>


\* lines 252-255: one iteration of the sequential loop, list_partition on
\* the calling thread
ListSequential ==
    /\ read_pc = "list"
    /\ LET i == next_index + 1
       IN  /\ list_calls' = [list_calls EXCEPT ![i] = @ + 1]
           /\ \E listing_ok \in BOOLEAN :
                 IF listing_ok
                 THEN /\ hive_files' = hive_files \o FilesOf(partitions[i])
                      /\ task' = [task EXCEPT ![i] = "finished"]
                      /\ next_index' = i
                      /\ read_pc' = IF i = Len(partitions) THEN "prune" ELSE "list"
                      /\ UNCHANGED <<error, task_files>>
                 ELSE /\ Fail(Err("LISTING_FAILED"))
                      /\ task' = [task EXCEPT ![i] = "failed"]
                      /\ task_files' = [task_files EXCEPT ![i].threw = TRUE]
                      /\ UNCHANGED <<hive_files, next_index>>
    /\ UNCHANGED <<read_settings, selection, partitions, mu, pool,
                   listed_files, resource, result>>
    /\ UNCHANGED <<hashVars, filterVars, bucketVars>>

\* ThreadPool::scheduleOrThrowOnError: waits for a free slot of the queue,
\* throws when the pool is shut down or no thread can be started, the
\* exception being the job exception the pool holds, if any
ScheduleOutcome(pl, thread_started) ==
    IF pl.shutdown \/ ~thread_started
    THEN [thrown |-> IF pl.first_exception # NoError THEN pl.first_exception
                     ELSE Err("CANNOT_SCHEDULE_TASK"),
          pool |-> [pl EXCEPT !.first_exception = NoError]]
    ELSE [thrown |-> NoError,
          pool |-> [pl EXCEPT !.scheduled_jobs = @ + 1,
                              !.threads = IF @ < Min(pl.max_threads, pl.scheduled_jobs + 1)
                                          THEN @ + 1 ELSE @]]

\* lines 262-270: one iteration of the scheduling loop
ScheduleJob ==
    /\ read_pc = "schedule"
    /\ pool.queue_size = 0 \/ pool.scheduled_jobs < pool.queue_size \/ pool.shutdown
    /\ LET i == next_index + 1
           needs_thread == pool.threads < Min(pool.max_threads, pool.scheduled_jobs + 1)
       IN  \E thread_started \in BOOLEAN :
              /\ thread_started \/ (needs_thread /\ ~pool.shutdown)
              /\ LET out == ScheduleOutcome(pool, thread_started)
                 IN  /\ pool' = out.pool
                     /\ IF out.thrown # NoError
                        THEN /\ error' = out.thrown
                             /\ read_pc' = "unwind"
                             /\ UNCHANGED <<task, next_index>>
                        ELSE /\ task' = [task EXCEPT ![i] = "queued"]
                             /\ next_index' = i
                             /\ read_pc' = IF i = Len(partitions) THEN "wait" ELSE "schedule"
                             /\ UNCHANGED error
    /\ UNCHANGED <<read_settings, selection, partitions, task_files, mu, hive_files,
                   list_calls, listed_files, resource, result>>
    /\ UNCHANGED <<hashVars, filterVars, bucketVars>>

\* ThreadPool::worker takes a job off the queue: it runs it, or drops it
\* when the pool is shut down
StartJob(i) ==
    /\ task[i] = "queued"
    /\ IF pool.shutdown
       THEN /\ task' = [task EXCEPT ![i] = "dropped"]
            /\ pool' = [pool EXCEPT !.scheduled_jobs = @ - 1]
            /\ UNCHANGED list_calls
       ELSE /\ task' = [task EXCEPT ![i] = "listing"]
            /\ list_calls' = [list_calls EXCEPT ![i] = @ + 1]
            /\ UNCHANGED pool
    /\ UNCHANGED <<read_pc, read_settings, selection, partitions, error, next_index,
                   task_files, mu, hive_files, listed_files, resource, result>>
    /\ UNCHANGED <<hashVars, filterVars, bucketVars>>

\* a job that catches the lister's exception and ends normally
JobFailsSilently(i) ==
    /\ task' = [task EXCEPT ![i] = "finished"]
    /\ pool' = [pool EXCEPT !.scheduled_jobs = @ - 1]

\* lines 264-269 with line 243 throwing: the exception leaves the job; the
\* worker keeps the first exception and shuts the pool down
JobFails(i) ==
    /\ task' = [task EXCEPT ![i] = "failed"]
    /\ pool' = [pool EXCEPT !.scheduled_jobs = @ - 1,
                            !.shutdown = TRUE,
                            !.first_exception =
                                IF @ = NoError THEN Err("LISTING_FAILED") ELSE @]

\* a job that refers to the loop variable of the scheduling loop in the place
\* of its own copy of the partition
ListInJobByReference(i) ==
    /\ task[i] = "listing"
    /\ \E listing_ok \in BOOLEAN :
          IF listing_ok
          THEN /\ task' = [task EXCEPT ![i] = "listed"]
               /\ task_files' = [task_files EXCEPT ![i].files = FilesOf(partitions[next_index])]
               /\ UNCHANGED pool
          ELSE /\ JobFails(i)
               /\ task_files' = [task_files EXCEPT ![i].threw = TRUE]
    /\ UNCHANGED <<read_pc, read_settings, selection, partitions, error, next_index,
                   mu, hive_files, list_calls, listed_files, resource, result>>
    /\ UNCHANGED <<hashVars, filterVars, bucketVars>>

\* line 243 in a job: lister->list(partition) returns or throws
ListInJob(i) ==
    /\ task[i] = "listing"
    /\ \E listing_ok \in BOOLEAN :
          IF listing_ok
          THEN /\ task' = [task EXCEPT ![i] = "listed"]
               /\ task_files' = [task_files EXCEPT ![i].files = FilesOf(partitions[i])]
               /\ UNCHANGED pool
          ELSE /\ JobFails(i)
               /\ task_files' = [task_files EXCEPT ![i].threw = TRUE]
    /\ UNCHANGED <<read_pc, read_settings, selection, partitions, error, next_index,
                   mu, hive_files, list_calls, listed_files, resource, result>>
    /\ UNCHANGED <<hashVars, filterVars, bucketVars>>

\* a lock that is granted whoever holds it
LockGrantedAlways(holder) == TRUE

\* line 245: std::lock_guard lock(mu) is granted when mu is free
LockGranted(holder) == holder = 0

\* lines 245-246: the job takes mu and reads the collection it appends to
LockInJob(i) ==
    /\ task[i] = "listed"
    /\ LockGranted(mu)
    /\ mu' = i
    /\ task' = [task EXCEPT ![i] = "appending"]
    /\ task_files' = [task_files EXCEPT ![i].seen = hive_files]
    /\ UNCHANGED <<read_pc, read_settings, selection, partitions, error, next_index,
                   hive_files, pool, list_calls, listed_files, resource, result>>
    /\ UNCHANGED <<hashVars, filterVars, bucketVars>>

\* lines 246-247: the files are written at the end of the collection and mu
\* is released; the job has yet to return to its worker
AppendInJob(i) ==
    /\ task[i] = "appending"
    /\ hive_files' = task_files[i].seen \o task_files[i].files
    /\ mu' = IF mu = i THEN 0 ELSE mu
    /\ task' = [task EXCEPT ![i] = "appended"]
    /\ UNCHANGED <<read_pc, read_settings, selection, partitions, error, next_index,
                   task_files, pool, list_calls, listed_files, resource, result>>
    /\ UNCHANGED <<hashVars, filterVars, bucketVars>>

\* the job returns to ThreadPool::worker, which counts it as done
FinishJob(i) ==
    /\ task[i] = "appended"
    /\ task' = [task EXCEPT ![i] = "finished"]
    /\ pool' = [pool EXCEPT !.scheduled_jobs = @ - 1]
    /\ UNCHANGED <<read_pc, read_settings, selection, partitions, error, next_index,
                   task_files, mu, hive_files, list_calls, listed_files, resource, result>>
    /\ UNCHANGED <<hashVars, filterVars, bucketVars>>

\* line 271, pool.wait(): returns when no job is scheduled, throwing the
\* first job exception
WaitForJobs ==
    /\ read_pc = "wait"
    /\ pool.scheduled_jobs = 0
    /\ IF pool.first_exception # NoError
       THEN /\ error' = pool.first_exception
            /\ pool' = [pool EXCEPT !.first_exception = NoError]
            /\ read_pc' = "unwind"
       ELSE /\ read_pc' = "leave"
            /\ UNCHANGED <<error, pool>>
    /\ UNCHANGED <<read_settings, selection, partitions, next_index, task, task_files,
                   mu, hive_files, list_calls, listed_files, resource, result>>
    /\ UNCHANGED <<hashVars, filterVars, bucketVars>>

\* ThreadPool::~ThreadPool, first half: the pool is shut down
FinalizePool ==
    /\ read_pc \in {"unwind", "leave"}
    /\ pool' = [pool EXCEPT !.shutdown = TRUE]
    /\ read_pc' = "join"
    /\ UNCHANGED <<read_settings, selection, partitions, error, next_index, task,
                   task_files, mu, hive_files, list_calls, listed_files, resource, result>>
    /\ UNCHANGED <<hashVars, filterVars, bucketVars>>

\* every worker thread can be joined: no job is queued or running
AllJobsEnded == \A i \in DOMAIN task : task[i] \in {"unscheduled", "finished", "failed", "dropped"}

\* control after the pool's scope
AfterPool == IF error = NoError THEN "prune" ELSE "failed"

\* a pool whose threads are not joined when control leaves the block
LeavePoolScopeDetached ==
    /\ read_pc = "join"
    /\ read_pc' = AfterPool
    /\ UNCHANGED <<read_settings, selection, partitions, error, next_index, task,
                   task_files, mu, hive_files, pool, list_calls, listed_files,
                   resource, result>>
    /\ UNCHANGED <<hashVars, filterVars, bucketVars>>

\* lines 261-272: pool is a local of the else block, so control leaves the
\* block, normally or with an exception, only when its destructor has
\* joined the worker threads
LeavePoolScope ==
    /\ read_pc = "join"
    /\ AllJobsEnded
    /\ read_pc' = AfterPool
    /\ UNCHANGED <<read_settings, selection, partitions, error, next_index, task,
                   task_files, mu, hive_files, pool, list_calls, listed_files,
                   resource, result>>
    /\ UNCHANGED <<hashVars, filterVars, bucketVars>>

\* a predicate that also removes the files whose hash index is unknown
ShouldRemoveUnknownToo(required_bucket, file_hash_index) ==
    /\ required_bucket # None
    /\ (file_hash_index.kind = "none" \/ file_hash_index.v # required_bucket.v)

\* lines 280-283: the predicate of remove_if, given the file's hash index
ShouldRemove(required_bucket, file_hash_index) ==
    /\ required_bucket # None
    /\ file_hash_index.kind = "value"
    /\ file_hash_index.v # required_bucket.v

\* lines 279-285: remove_if and erase; the hash index of a file is computed
\* only when a bucket is required, and its exception ends the pruning
RECURSIVE PruneFiles(_, _, _)
PruneFiles(files, required_bucket, kept) ==
    IF files = <<>> THEN Some(kept)
    ELSE IF required_bucket = None
    THEN PruneFiles(Tail(files), required_bucket, Append(kept, Head(files)))
    ELSE LET h == get_file_hash_index(PathOf(Head(files)))
         IN  IF h.kind = "throw" THEN h
             ELSE PruneFiles(Tail(files), required_bucket,
                             IF ShouldRemove(required_bucket, h) THEN kept
                             ELSE Append(kept, Head(files)))

\* TxnTimestamp::toString: the decimal digits of the transaction id
DigitChar(d) ==
    CASE d = 0 -> "0" [] d = 1 -> "1" [] d = 2 -> "2" [] d = 3 -> "3" [] d = 4 -> "4"
      [] d = 5 -> "5" [] d = 6 -> "6" [] d = 7 -> "7" [] d = 8 -> "8" [] d = 9 -> "9"

RECURSIVE toString(_)
toString(n) ==
    IF n < 10 THEN <<DigitChar(n)>> ELSE Append(toString(n \div 10), DigitChar(n % 10))

TableName == <<"t", "b", "l">>

TxnIds == {7, 42}

\* a cloud table named as the table, without the transaction id
CloudTableNameWithoutTxn(table_name, txn_id) == table_name

\* line 203: the name of the cloud table
CloudTableName(table_name, txn_id) == table_name \o <<"_">> \o toString(txn_id)

ReadConds ==
    {NoCond, Equals("a", 1), Equals("a", 2),
     Func("or", <<Equals("a", 1), Equals("a", 2)>>),
     Func("and", <<Equals("a", 1), Equals("b", 2)>>)}

\* lines 274-292: bucket pruning, then collectResource and the return
PruneAndCollect ==
    /\ read_pc = "prune"
    /\ listed_files' = hive_files
    /\ \E key \in ClusterKeys, conds \in ReadConds, txn_id \in TxnIds :
          LET active == key.is_bucket_table /\ read_settings.use_hive_cluster_key_filter
              required_bucket == IF active THEN getSelectedBucketNumber(key, conds) ELSE None
              pruned == IF active THEN PruneFiles(hive_files, required_bucket, <<>>)
                        ELSE Some(hive_files)
              name == CloudTableName(TableName, txn_id)
          IN  /\ cluster_by_key' = key
              /\ cluster_key_conds' = conds
              /\ selected_bucket' = IF active THEN required_bucket ELSE Pending
              /\ IF pruned.kind = "throw"
                 THEN /\ Fail(Err(pruned.error))
                      /\ UNCHANGED <<hive_files, resource, result>>
                 ELSE /\ hive_files' = pruned.v
                      /\ resource' =
                            [create_queries |-> Append(resource.create_queries, name),
                             data_parts |-> Append(resource.data_parts, pruned.v)]
                      /\ result' = [returned |-> TRUE, hive_files |-> pruned.v,
                                    local_table_name |-> name]
                      /\ read_pc' = "done"
                      /\ UNCHANGED error
    /\ UNCHANGED <<read_settings, selection, partitions, next_index, task, task_files,
                   mu, pool, list_calls>>
    /\ UNCHANGED <<hashVars, filterVars, bucket_pc>>

HashInit == HashInputs /\ FilterIdle /\ BucketIdle /\ ReadIdle

HashNext == ExtractHashIndex

SpecHash == HashInit /\ [][HashNext]_vars

FilterInit == FilterInputs /\ HashIdle /\ BucketIdle /\ ReadIdle

FilterNext == ApplyFilter

SpecFilter == FilterInit /\ [][FilterNext]_vars

ReadInit == ReadInputs /\ HashIdle /\ FilterIdle /\ BucketIdle

ReadNext ==
    \/ PlanPartitions
    \/ ListSequential
    \/ ScheduleJob
    \/ \E i \in DOMAIN task : StartJob(i)
    \/ \E i \in DOMAIN task : ListInJob(i)
    \/ \E i \in DOMAIN task : LockInJob(i)
    \/ \E i \in DOMAIN task : AppendInJob(i)
    \/ \E i \in DOMAIN task : FinishJob(i)
    \/ WaitForJobs
    \/ FinalizePool
    \/ LeavePoolScope
    \/ PruneAndCollect

SpecRead == ReadInit /\ [][ReadNext]_vars

BucketInit == BucketInputs /\ HashIdle /\ FilterIdle /\ ReadIdle

BucketNext == ResolveBucket

SpecBucket == BucketInit /\ [][BucketNext]_vars

\* the bag of the elements of a sequence
BagOfSeq(s) ==
    [x \in {s[i] : i \in 1..Len(s)} |-> Cardinality({i \in 1..Len(s) : s[i] = x})]

\* the conjuncts applyFilter appended to the partition filter
AppendedPartitionFilter ==
    SubSeq(partition_filters,
           Len(partition_filters) - Len(extractPartitionFilter(query_filter).push) + 1,
           Len(partition_filters))

\* C8 (as stated): for both values of the pushdown setting the appended
\* partition conjuncts and the WHERE conjuncts are together exactly the
\* conjuncts of the original filter; with pushdown disabled every conjunct
\* stays in WHERE; with every conjunct partition-only WHERE is empty and the
\* partition filter is the original filter.
C8_AsStated ==
    filter_pc \in {"done", "failed"} =>
        LET push_down == filter_settings.external_enable_partition_filter_push_down
            appended == IF push_down THEN AppendedPartitionFilter ELSE <<>>
        IN  /\ BagOfSeq(appended) (+) BagOfSeq(where_filter) = BagOfSeq(query_filter)
            /\ (~push_down => where_filter = query_filter)
            /\ ((push_down /\ \A i \in 1..Len(query_filter) :
                                Columns(query_filter[i]) \subseteq PartitionColumns)
                  => where_filter = <<>> /\ appended = query_filter)

(***************************************************************************)
(* The two-tier rule stated on the path as a whole: the anchor of a rule   *)
(* is the position after the last occurrence of its character, the run is  *)
(* the longest all-digit segment starting at the anchor, its value is the  *)
(* place-value sum of its digits.                                          *)
(***************************************************************************)
Occurs(s, c) == \E i \in 1..Len(s) : s[i] = c

LastIndex(s, c) == CHOOSE i \in 1..Len(s) : s[i] = c /\ \A j \in (i + 1)..Len(s) : s[j] # c

RunLength(s, start) ==
    CHOOSE k \in 0..(Len(s) - start) :
        /\ \A i \in 1..k : s[start + i] \in Digits
        /\ (start + k < Len(s) => s[start + k + 1] \notin Digits)

RunAt(s, start) == SubSeq(s, start + 1, start + RunLength(s, start))

StripZeros(run) ==
    LET nz == {i \in 1..Len(run) : run[i] # "0"}
    IN  IF nz = {} THEN <<>>
        ELSE SubSeq(run, CHOOSE i \in nz : \A j \in nz : i <= j, Len(run))

LexGreater(a, b) ==
    \E i \in 1..Len(a) :
        /\ DigitVal(a[i]) > DigitVal(b[i])
        /\ \A j \in 1..(i - 1) : a[j] = b[j]

\* the run denotes a number above INT_MAX
ExceedsInt(run) ==
    LET t == StripZeros(run)
    IN  Len(t) > Len(IntMaxRun) \/ (Len(t) = Len(IntMaxRun) /\ LexGreater(t, IntMaxRun))

RECURSIVE Pow10(_)
Pow10(n) == IF n = 0 THEN 1 ELSE 10 * Pow10(n - 1)

RECURSIVE PlaceValueSum(_, _)
PlaceValueSum(t, i) ==
    IF i > Len(t) THEN 0
    ELSE DigitVal(t[i]) * Pow10(Len(t) - i) + PlaceValueSum(t, i + 1)

RunValue(run) == PlaceValueSum(StripZeros(run), 1)

\* the rule of character c as the code applies it: an absent character
\* anchors the rule at the start of the path
RuleFromStartWhenAbsent(s, c) ==
    LET run == RunAt(s, IF Occurs(s, c) THEN LastIndex(s, c) ELSE 0)
    IN  IF run = <<>> THEN None
        ELSE IF ExceedsInt(run) THEN Throw("out_of_range")
        ELSE Some(RunValue(run))

TwoTierFromStartWhenAbsent(s) ==
    IF RuleFromStartWhenAbsent(s, "_") # None THEN RuleFromStartWhenAbsent(s, "_")
    ELSE RuleFromStartWhenAbsent(s, "/")

\* the rule of character c applying only when c occurs in the path; "run"
\* is the run the rule selects, <<>> when it selects none
RunOnlyWhenPresent(s, c) == IF Occurs(s, c) THEN RunAt(s, LastIndex(s, c)) ELSE <<>>

SelectedRunOnlyWhenPresent(s) ==
    IF RunOnlyWhenPresent(s, "_") # <<>> THEN RunOnlyWhenPresent(s, "_")
    ELSE RunOnlyWhenPresent(s, "/")

\* C3 (as stated): the three documented paths yield 3, 33 and none.
C3_AsStated ==
    hash_index # Pending =>
        /\ (hive_file_path = Example1 => hash_index = Some(3))
        /\ (hive_file_path = Example2 => hash_index = Some(33))
        /\ (hive_file_path = Example3 => hash_index = None)

\* C3 (amended): the three documented paths yield 3, 3 and none: in the
\* second path no digit follows the last `_`, so the run after the last `/`,
\* 000003, is the index.
C3_Examples ==
    hash_index # Pending =>
        /\ (hive_file_path = Example1 => hash_index = Some(3))
        /\ (hive_file_path = Example2 => hash_index = Some(3))
        /\ (hive_file_path = Example3 => hash_index = None)

C3_Witness == hive_file_path = Example2 /\ hash_index.kind = "value"

\* C4 (as stated): the outcome is the value of the run selected by the
\* two-tier rule in which a rule applies only when its character occurs in
\* the path, and none when no run is selected.
C4_AsStated ==
    hash_index # Pending =>
        LET run == SelectedRunOnlyWhenPresent(hive_file_path)
        IN  IF run = <<>> THEN hash_index = None
            ELSE /\ hash_index.kind = "value"
                 /\ (~ExceedsInt(run) => hash_index.v = RunValue(run))

\* C4 (amended): the outcome is that of the two-tier rule in which a rule
\* whose character is absent scans from the start of the path; a selected
\* run above INT_MAX makes the call fail with out_of_range.
C4_TwoTier ==
    hash_index # Pending => hash_index = TwoTierFromStartWhenAbsent(hive_file_path)

C4_Witness == hive_file_path = <<"7", "a">> /\ hash_index = Some(7)

\* the columns bound by an equals(column, literal) conjunct that is reached
\* from the root of the condition through AND nodes only
RECURSIVE AndReachableColumns(_)
AndReachableColumns(ast) ==
    CASE ast.fn = "equals" -> {ast.col}
      [] ast.fn = "and" -> UNION {AndReachableColumns(ast.args[i]) : i \in 1..Len(ast.args)}
      [] OTHER -> {}

RequiredColumns == {cluster_by_key.required_cols[i] : i \in 1..Len(cluster_by_key.required_cols)}

\* C7: getSelectedBucketNumber returns none whenever a required column of
\* the cluster-by expression has no equals(column, literal) conjunct
\* reachable from the root through AND nodes only; a bucket is returned only
\* when every required column is bound that way.
C7_NoPartialBucket ==
    bucket_pc = "done" =>
        /\ ((\E c \in RequiredColumns : c \notin AndReachableColumns(cluster_key_conds))
              => selected_bucket = None)
        /\ (selected_bucket.kind = "value"
              => /\ cluster_by_key.is_bucket_table
                 /\ RequiredColumns \subseteq AndReachableColumns(cluster_key_conds))

\* a is bound at the root's AND, b only under an OR: no bucket
C7_Witness ==
    /\ bucket_pc = "done"
    /\ cluster_by_key.required_cols = <<"a", "b">>
    /\ cluster_key_conds =
          Func("and", <<Equals("a", 1), Func("or", <<Equals("b", 1), Equals("b", 2)>>)>>)
    /\ selected_bucket = None

\* the number of times x occurs in a sequence
Count(seq, x) == Cardinality({i \in 1..Len(seq) : seq[i] = x})

\* C1 (as stated): for all tables, every selected partition is one of the
\* partitions the metastore reported for the call, no more often than
\* reported.
C1_AsStated ==
    selection.selected =>
        \A i \in 1..Len(partitions) :
            /\ partitions[i] \in Range(selection.reported)
            /\ Count(partitions, partitions[i]) <= Count(selection.reported, partitions[i])

\* C1 (amended): for a table with a partition key, whatever
\* use_hive_metastore_filter and use_hive_partition_filter are, every
\* selected partition is one of the partitions the metastore reported for
\* the call, no more often than reported; for a table without partition key
\* the metastore is not asked for partitions and the result is the single
\* partition built from the table's storage descriptor.
C1_SubsetOfReported ==
    selection.selected =>
        IF selection.has_partition_key
        THEN \A i \in 1..Len(partitions) :
                /\ partitions[i] \in Range(selection.reported)
                /\ Count(partitions, partitions[i]) <= Count(selection.reported, partitions[i])
        ELSE partitions = <<TablePartition>> /\ selection.metastore_calls = 0

C1_Witness ==
    /\ selection.selected
    /\ selection.has_partition_key
    /\ selection.use_hive_metastore_filter
    /\ selection.use_hive_partition_filter
    /\ selection.filter # ""
    /\ Len(selection.reported) = 3
    /\ Len(partitions) = 2

NoListing == \A i \in DOMAIN list_calls : list_calls[i] = 0

\* C2: with max_partitions_to_read = N > 0, a selection of more than N
\* partitions (N + 1 in particular) fails with TOO_MANY_PARTITIONS carrying
\* the count and N, before any listing and any registration, the selected
\* list being left as selected; with N = 0 the ceiling never fails a read.
C2_Ceiling ==
    LET N == read_settings.max_partitions_to_read
    IN  /\ (selection.selected /\ N > 0 /\ Len(partitions) >= N + 1) =>
              /\ read_pc = "failed"
              /\ error = [code |-> "TOO_MANY_PARTITIONS", current |-> Len(partitions), max |-> N]
              /\ NoListing
              /\ resource = NoResource
              /\ ~result.returned
        /\ (read_pc # "idle" /\ N = 0) => error.code # "TOO_MANY_PARTITIONS"

C2_Witness ==
    /\ read_settings.max_partitions_to_read = 2
    /\ Len(partitions) = 3
    /\ read_pc = "failed"
    /\ error.code = "TOO_MANY_PARTITIONS"

\* bucket pruning is active
PruningActive ==
    /\ cluster_by_key.is_bucket_table
    /\ read_settings.use_hive_cluster_key_filter

\* C5: on return the final file set is the listed file set without the
\* files that have a known hash index differing from the resolved bucket,
\* and such files are removed only when pruning is active and a bucket was
\* resolved: files of unknown index and files of the required index stay,
\* and without a bucket or with pruning inactive the set is unchanged.
C5_ConservativePruning ==
    read_pc = "done" =>
        LET removed == {f \in Range(listed_files) :
                           /\ PruningActive
                           /\ selected_bucket.kind = "value"
                           /\ get_file_hash_index(PathOf(f)).kind = "value"
                           /\ get_file_hash_index(PathOf(f)).v # selected_bucket.v}
        IN  /\ hive_files = SelectSeq2(listed_files, Range(listed_files) \ removed)
            /\ result.hive_files = hive_files

C5_Witness ==
    /\ read_pc = "done"
    /\ PruningActive
    /\ selected_bucket = Some(1)
    /\ Range(listed_files) = {"a_0", "a_1", "b_none"}
    /\ Range(hive_files) = {"a_1", "b_none"}

\* what listing the partitions one after another yields
RECURSIVE SequentialListing(_)
SequentialListing(parts) ==
    IF parts = <<>> THEN <<>> ELSE FilesOf(Head(parts)) \o SequentialListing(Tail(parts))

ListedFiles == IF read_pc = "done" THEN listed_files ELSE hive_files

\* C6: when listing has ended without a failure, the files collected are,
\* as an unordered collection, the files the lister returns for the
\* selected partitions, each once, in the sequential mode and in the
\* concurrent mode under every interleaving of the jobs; the sequential
\* mode yields them in partition order.
C6_SameFilesInBothModes ==
    read_pc \in {"prune", "done"} =>
        /\ BagOfSeq(ListedFiles) = BagOfSeq(SequentialListing(partitions))
        /\ (Sequential(read_settings.num_streams, Len(partitions))
              => ListedFiles = SequentialListing(partitions))

C6_Witness ==
    /\ read_pc = "prune"
    /\ ~Sequential(read_settings.num_streams, Len(partitions))
    /\ Len(partitions) = 3
    /\ hive_files # SequentialListing(partitions)

\* C9: in the concurrent mode control is past the pool's block, on the way
\* to return or with an exception raised, only when no scheduled job is
\* queued or running and mu is free.
C9_NoJobOutlivesTheCall ==
    read_pc \in {"prune", "done", "failed"} =>
        /\ \A i \in DOMAIN task : task[i] \notin {"queued", "listing", "listed", "appending", "appended"}
        /\ mu = 0
        /\ pool.scheduled_jobs = 0

\* scheduling failed part-way, after a job that then ran to its end
C9_Witness ==
    /\ read_pc = "failed"
    /\ error.code = "CANNOT_SCHEDULE_TASK"
    /\ \E i \in DOMAIN task : task[i] = "finished"
    /\ \E i \in DOMAIN task : task[i] = "unscheduled"

ListingThrew == \E i \in DOMAIN task_files : task_files[i].threw

\* C10: once the listing of a partition has failed, in either mode, the
\* call does not reach bucket pruning or its return: no result, no
\* addCreateQuery, no addDataParts; the call has failed or is still on its
\* way to failing; no partition is listed twice.
C10_ListingFailureFailsTheCall ==
    /\ \A i \in DOMAIN list_calls : list_calls[i] <= 1
    /\ ListingThrew =>
          /\ read_pc \notin {"prune", "done"}
          /\ ~result.returned
          /\ resource = NoResource
          /\ selected_bucket = Pending
          /\ (read_pc = "failed" \/ ENABLED ReadNext)
          /\ (read_pc = "failed" => error.code \in {"LISTING_FAILED", "CANNOT_SCHEDULE_TASK"})

C10_Witness ==
    /\ read_pc = "failed"
    /\ error.code = "LISTING_FAILED"
    /\ ~Sequential(read_settings.num_streams, Len(partitions))
    /\ \E i \in DOMAIN task : task[i] = "failed"
    /\ \E i \in DOMAIN task : task[i] = "finished"

\* the three input formats that have a lister
RecognizedFormats == {HudiFormat, ParquetFormat, OrcFormat}

\* nothing of the listing has begun: no lister call, no pool, no file
\* collected, nothing registered, nothing returned
NothingListedOrRegistered ==
    /\ NoListing
    /\ \A i \in DOMAIN task : task[i] = "unscheduled"
    /\ pool = NoPool
    /\ hive_files = <<>>
    /\ resource = NoResource
    /\ ~result.returned

\* C11 (as stated): for a query whose column check, partition selection and
\* disk resolution do not fail, an input format that is none of the three
\* recognized strings makes planning fail with UNKNOWN_FORMAT, no lister
\* being invoked and nothing registered.
C11_AsStated ==
    (selection.selected /\ ~selection.disk_failed
       /\ read_settings.input_format \notin RecognizedFormats) =>
        /\ read_pc = "failed"
        /\ error.code = "UNKNOWN_FORMAT"
        /\ NothingListedOrRegistered

\* C11 (amended): with an input format that is none of the three
\* recognized strings, planning fails before any listing begins: no lister
\* is invoked, no pool is made, nothing is registered or returned.  The
\* failure is UNKNOWN_FORMAT unless a step that comes first has failed the
\* call with its own error: the column check, the metastore call of
\* partition selection, the partition ceiling, or the resolution of the
\* table's disk in getDirectoryLister, in this order; a recognized format
\* never fails with UNKNOWN_FORMAT.
C11_UnknownFormatFailsBeforeListing ==
    LET N == read_settings.max_partitions_to_read
        over == N > 0 /\ Len(partitions) > N
    IN  /\ (read_pc \notin {"idle", "start"}
              /\ read_settings.input_format \notin RecognizedFormats) =>
              /\ read_pc = "failed"
              /\ NothingListedOrRegistered
              /\ error.code =
                    IF ~selection.selected
                    THEN (IF selection.metastore_calls = 0 THEN "NO_SUCH_COLUMN_IN_TABLE"
                          ELSE "METASTORE_FAILED")
                    ELSE IF over THEN "TOO_MANY_PARTITIONS"
                    ELSE IF selection.disk_failed THEN "GET_DISK_FAILED"
                    ELSE "UNKNOWN_FORMAT"
        /\ (read_pc # "idle" /\ read_settings.input_format \in RecognizedFormats) =>
              error.code # "UNKNOWN_FORMAT"

C11_Witness ==
    /\ read_pc = "failed"
    /\ error.code = "UNKNOWN_FORMAT"
    /\ read_settings.input_format = "org.apache.hadoop.mapred.TextInputFormat"
    /\ read_settings.num_streams = 2
    /\ Len(partitions) = 2
    /\ NothingListedOrRegistered

\* C12: on every return of applyFilter, whatever the promotion policy, the
\* returned residual filter has no conjunct in common with the prewhere
\* clause the query then has, promoted by the call or assigned before it;
\* under ALL, when the engine supports prewhere, promotion is enabled, WHERE
\* is non-empty, no prewhere was assigned before and the read is not final
\* (or final reads are allowed), the prewhere clause is the whole WHERE
\* filter and the returned filter is empty; under NEVER the prewhere clause
\* is the one the query had before the call.
C12_ResidualDisjointFromPrewhere ==
    [][filter_pc' = "done" =>
          LET st == filter_settings
              method == st.hive_move_to_prewhere_method
              guards == /\ st.supportsPrewhere
                        /\ st.optimize_move_to_prewhere
                        /\ where_filter' # <<>>
                        /\ ~select_query.prewhere.set
                        /\ (~select_query.final \/ st.optimize_move_to_prewhere_if_final)
          IN  /\ Range(residual_filter'.conjuncts)
                    \cap Range(select_query'.prewhere.conjuncts) = {}
              /\ residual_filter'.set = (residual_filter'.conjuncts # <<>>)
              /\ (method = "ALL" /\ guards) =>
                    /\ select_query'.prewhere.set
                    /\ select_query'.prewhere.conjuncts = where_filter'
                    /\ select_query'.where.conjuncts = where_filter'
                    /\ residual_filter' = NoExpr
              /\ (method = "NEVER") => select_query'.prewhere = select_query.prewhere
    ]_vars

C12_Witness ==
    /\ filter_pc = "done"
    /\ filter_settings.hive_move_to_prewhere_method = "ALL"
    /\ where_filter = <<"a_eq", "pa_lt">>
    /\ select_query.prewhere = combineConjuncts(<<"a_eq", "pa_lt">>)
    /\ residual_filter = NoExpr

\* C13: on every return of prepareReadContext each selected partition has
\* been listed exactly once, and every file of the returned set is a file
\* the lister returned for a selected partition, no more often than the
\* lister returned it; no returned file is a file of a partition that was
\* pruned or not selected.
C13_FilesOfSelectedPartitionsOnly ==
    read_pc = "done" =>
        /\ result.returned
        /\ \A i \in 1..Len(partitions) : list_calls[i] = 1
        /\ \A f \in Range(result.hive_files) :
              /\ \E i \in 1..Len(partitions) : f \in Range(FilesOf(partitions[i]))
              /\ Count(result.hive_files, f) <= Count(SequentialListing(partitions), f)
              /\ \A p \in (0..MaxParts) \ Range(partitions) : f \notin Range(FilesOf(p))

\* a concurrent read of two of three reported partitions, one pruned by
\* the partition pruner, with files pruned by bucket
C13_Witness ==
    /\ read_pc = "done"
    /\ ~Sequential(read_settings.num_streams, Len(partitions))
    /\ selection.reported = <<1, 2, 3>>
    /\ partitions = <<1, 3>>
    /\ result.hive_files = <<"c_1", "a_1">>
    /\ listed_files = <<"c_1", "a_0", "a_1">>

\* the jobs that are running list_partition
Executing == {i \in DOMAIN task : task[i] \in {"listing", "listed", "appending", "appended"}}

\* C14: at every moment of a read the jobs running list_partition are at
\* most min(num_streams, number of selected partitions), at most one job
\* is appending to hive_files and it is the holder of mu, and a job whose
\* lister call is in progress or that waits for mu does not hold mu; with
\* num_streams <= 1 or exactly one partition no pool is made, no job is
\* ever scheduled and the partitions are listed in order, one at a time.
C14_BoundedListingExclusiveAppend ==
    selection.selected =>
        LET n == Len(partitions)
            bound == IF read_settings.num_streams < n THEN read_settings.num_streams ELSE n
        IN  /\ Cardinality(Executing) <= bound
            /\ Cardinality({i \in DOMAIN task : task[i] = "appending"}) <= 1
            /\ \A i \in DOMAIN task :
                  /\ (task[i] = "appending") = (mu = i)
                  /\ task[i] \in {"listing", "listed", "appended"} => mu # i
            /\ mu \in {0} \cup DOMAIN task
            /\ (read_settings.num_streams <= 1 \/ n = 1) =>
                  /\ pool = NoPool
                  /\ mu = 0
                  /\ \A i \in DOMAIN task :
                        /\ task[i] \in {"unscheduled", "finished", "failed"}
                        /\ (list_calls[i] > 0 => \A j \in 1..(i - 1) : task[j] = "finished")

\* one job appends while another, which has released mu, is still counted
\* by the pool, and the third partition waits for a free slot of the pool
C14_Witness ==
    /\ read_settings.num_streams = 2
    /\ Len(partitions) = 3
    /\ read_pc = "schedule"
    /\ task = <<"appended", "appending", "unscheduled">>
    /\ mu = 2
    /\ pool.scheduled_jobs = 2

\* the table name followed by '_' and the decimal digits of a transaction id
TransactionAliases ==
    {<<"t", "b", "l", "_", "7">>, <<"t", "b", "l", "_", "4", "2">>}

\* C15: the resource context is populated only by a call that returns, once,
\* when every selected partition has been listed and no job is left: one
\* addCreateQuery and one addDataParts; the files given to addDataParts are
\* the returned files, which are the listed files after bucket pruning; the
\* alias given to addCreateQuery is the table name, '_' and the transaction
\* id, and it is the local_table_name of the result.
C15_ResourceAfterPruningOnce ==
    (resource # NoResource \/ result.returned \/ read_pc = "done") =>
          /\ read_pc = "done"
          /\ result.returned
          /\ \A i \in DOMAIN task : task[i] = "finished" /\ list_calls[i] = 1
          /\ Len(resource.create_queries) = 1
          /\ Len(resource.data_parts) = 1
          /\ resource.data_parts[1] = result.hive_files
          /\ resource.data_parts[1] =
                SelectSeq2(listed_files,
                           {f \in Range(listed_files) :
                              ~(/\ PruningActive
                                /\ selected_bucket.kind = "value"
                                /\ get_file_hash_index(PathOf(f)).kind = "value"
                                /\ get_file_hash_index(PathOf(f)).v # selected_bucket.v)})
          /\ resource.create_queries[1] \in TransactionAliases
          /\ result.local_table_name = resource.create_queries[1]

\* a return whose registered files are fewer than the listed files
C15_Witness ==
    /\ read_pc = "done"
    /\ resource.create_queries = <<<<"t", "b", "l", "_", "4", "2">>>>
    /\ result.local_table_name = <<"t", "b", "l", "_", "4", "2">>
    /\ listed_files = <<"a_0", "a_1", "b_none">>
    /\ resource.data_parts = <<<<"a_0", "b_none">>>>

\* the run the two-tier rule selects, a rule whose character is absent
\* scanning from the start of the path
RunFromStartWhenAbsent(s, c) == RunAt(s, IF Occurs(s, c) THEN LastIndex(s, c) ELSE 0)

SelectedRunFromStartWhenAbsent(s) ==
    IF RunFromStartWhenAbsent(s, "_") # <<>> THEN RunFromStartWhenAbsent(s, "_")
    ELSE RunFromStartWhenAbsent(s, "/")

\* C16 (as stated): for every path whose selected digit run is non-empty
\* get_file_hash_index returns a value and never fails, whatever the length
\* or magnitude of the run, and the value is the value of the run (compared
\* here for the runs that fit in 31 bits).  The paths taken are those in
\* which the run follows a `_` or a `/` that occurs in the path.
C16_AsStated ==
    hash_index # Pending =>
        LET run == SelectedRunFromStartWhenAbsent(hive_file_path)
        IN  (run # <<>> /\ run = SelectedRunOnlyWhenPresent(hive_file_path)) =>
                /\ hash_index.kind = "value"
                /\ (~ExceedsInt(run) => hash_index.v = RunValue(run))

====
